---- MODULE Spec2Model ----
(***************************************************************************)
(* A model of insta.py: the gallery-dl helpers (write_gallerydl_config,    *)
(* run_gallerydl, list_downloaded_media, is_video_file, the media grid and *)
(* the ZIP bundle) and the six tab handlers of the Streamlit page that     *)
(* call them.                                                              *)
(*                                                                         *)
(* URLs, directory names and messages are TLA+ strings built with \o.      *)
(* Names of downloaded files are sequences of one-character strings, so    *)
(* that Path.suffix, str.lower and the ordering of paths are computed      *)
(* character by character as Python computes them.  A path below a         *)
(* download directory is the sequence of its components (Path.parts past   *)
(* the download directory).                                                *)
(***************************************************************************)
EXTENDS Integers, Sequences, FiniteSets, TLC

(***************************************************************************)
(* Characters: the ASCII characters that file names are made of here, each *)
(* with its code point.                                                    *)
(***************************************************************************)
Punct  == << "-", "." >>
Digits == << "0", "1", "2", "3", "4", "5", "6", "7", "8", "9" >>
Upper  == << "A", "B", "C", "D", "E", "F", "G", "H", "I", "J", "K", "L", "M",
             "N", "O", "P", "Q", "R", "S", "T", "U", "V", "W", "X", "Y", "Z" >>
Lowers == << "a", "b", "c", "d", "e", "f", "g", "h", "i", "j", "k", "l", "m",
             "n", "o", "p", "q", "r", "s", "t", "u", "v", "w", "x", "y", "z" >>

CodeSegment(first, chars) == {<<chars[i], first + i - 1>> : i \in 1..Len(chars)}

CharTable ==
  CodeSegment(45, Punct) \cup CodeSegment(48, Digits) \cup
  CodeSegment(65, Upper) \cup CodeSegment(95, << "_" >>) \cup
  CodeSegment(97, Lowers)

\* ord(c): the code point of a character
Ord(c) == (CHOOSE e \in CharTable : e[1] = c)[2]

\* chr(n)
Chr(n) == (CHOOSE e \in CharTable : e[2] = n)[1]

\* str.lower() on one character: 'A'..'Z' (65..90) move up by 32
LowerChar(c) == IF Ord(c) >= 65 /\ Ord(c) <= 90 THEN Chr(Ord(c) + 32) ELSE c

\* str.lower() on a string
Lower(w) == [i \in 1..Len(w) |-> LowerChar(w[i])]

\* Python's str.__lt__: the first differing code point decides, and a proper
\* prefix is smaller
RECURSIVE StrLess(_, _)
StrLess(u, w) ==
  IF w = <<>> THEN FALSE
  ELSE IF u = <<>> THEN TRUE
  ELSE IF Ord(Head(u)) < Ord(Head(w)) THEN TRUE
  ELSE IF Ord(Head(u)) > Ord(Head(w)) THEN FALSE
  ELSE StrLess(Tail(u), Tail(w))

\* PurePath.__lt__: the tuples of components are compared, so the first
\* differing component decides and a proper prefix is smaller
RECURSIVE PathLess(_, _)
PathLess(p, q) ==
  IF q = <<>> THEN FALSE
  ELSE IF p = <<>> THEN TRUE
  ELSE IF StrLess(Head(p), Head(q)) THEN TRUE
  ELSE IF StrLess(Head(q), Head(p)) THEN FALSE
  ELSE PathLess(Tail(p), Tail(q))

\* sorted(): the least remaining element first
RECURSIVE sorted(_)
sorted(S) ==
  IF S = {} THEN <<>>
  ELSE LET m == CHOOSE x \in S : \A y \in S \ {x} : PathLess(x, y)
       IN  <<m>> \o sorted(S \ {m})

\* PurePath.suffix: the part of the last component from its last dot on,
\* empty when there is no dot, when the only dot leads the name or when the
\* name ends in a dot
Suffix(path) ==
  LET name == path[Len(path)]
      dots == {i \in 1..Len(name) : name[i] = "."}
  IN  IF dots = {} THEN <<>>
      ELSE LET i == CHOOSE d \in dots : \A e \in dots : e <= d
           IN  IF i > 1 /\ i < Len(name) THEN SubSeq(name, i, Len(name))
               ELSE <<>>

\* PurePath.name
BaseName(path) == path[Len(path)]


(***************************************************************************)
(* The helpers of insta.py as operators.                                   *)
(***************************************************************************)

\* tempfile.gettempdir()
TmpDir == "/tmp"

\* the tab names run_gallerydl knows
Tabs == {"posts", "stories", "reels", "highlights", "tagged", "url"}

\* the strings that are hashed here, in a fixed order
Hashed ==
  << "s1", "s2", "natgeo", "nasa",
     "https://www.instagram.com/p/X/",
     "https://www.instagram.com/stories/highlights/1/" >>

\* the seeds a Python process may draw for its string hash
HashSeeds == {0, 1, 2}

\* hash(str): constant within one process, keyed by the seed the process
\* drew at start (PYTHONHASHSEED unset), signed.  Distinct (seed, string)
\* pairs get distinct values here.
hash(seed, str) ==
  LET i == CHOOSE k \in 1..Len(Hashed) : Hashed[k] = str
      h == 7919 * i + 104729 * seed
  IN  IF i % 2 = 0 THEN h ELSE -h

\* name of the config file, lines 21-23
cfg_name(seed, sessionid) == ToString(hash(seed, sessionid)) \o "_ig_config.json"

cfg_path(seed, sessionid) ==
  TmpDir \o "/gdl_instagram_configs/" \o cfg_name(seed, sessionid)

\* the JSON document write_gallerydl_config writes
config_data(sessionid) ==
  [extractor |-> [instagram |-> [cookies |-> [sessionid |-> sessionid]]]]

\* write_gallerydl_config on the config directory c: the directory is made
\* if absent and the file is written or overwritten
write_gallerydl_config(seed, c, sessionid) ==
  [exists |-> TRUE,
   files  |-> (cfg_name(seed, sessionid) :> config_data(sessionid)) @@ c.files]

\* run_gallerydl step 2: the target URL; an unknown tab raises ValueError
target_url(identifier, tab) ==
  IF tab = "posts" THEN "https://www.instagram.com/" \o identifier \o "/"
  ELSE IF tab = "stories" THEN "https://www.instagram.com/stories/" \o identifier \o "/"
  ELSE IF tab = "reels" THEN "https://www.instagram.com/" \o identifier \o "/reels/"
  ELSE IF tab = "tagged" THEN "https://www.instagram.com/" \o identifier \o "/tagged/"
  ELSE IF tab \in {"highlights", "url"} THEN identifier
  ELSE "ValueError"

\* whether step 2 raises
raises_ValueError(tab) ==
  ~ (tab \in {"posts", "stories", "reels", "tagged", "highlights", "url"})

\* what lies between the "/" of an identifier (a Python string is split
\* here by hand, for the identifiers that hold a "/")
Segments(identifier) ==
  IF identifier = "natgeo_posts/sub" THEN << "natgeo_posts", "sub" >>
  ELSE IF identifier = "https://www.instagram.com/p/X/"
    THEN << "https:", "", "www.instagram.com", "p", "X", "" >>
  ELSE IF identifier = "https://www.instagram.com/stories/highlights/1/"
    THEN << "https:", "", "www.instagram.com", "stories", "highlights", "1",
            "" >>
  ELSE << identifier >>

\* run_gallerydl step 3, lines 66-72: the parts of download_dir below
\* temp_dir.  pathlib splits the name at each "/" and drops empty parts, so
\* an identifier holding a "/" names a directory inside another one.
dir_parts(seed, identifier, tab) ==
  IF tab = "highlights"
    THEN << "ig_highlight_" \o ToString(hash(seed, identifier)) >>
  ELSE IF tab = "url"
    THEN << "ig_url_" \o ToString(hash(seed, identifier)) >>
  ELSE LET seg == Segments(identifier)
           n   == Len(seg)
       IN  IF n = 1 THEN << "ig_" \o identifier \o "_" \o tab >>
           ELSE << "ig_" \o seg[1] >>
                \o SelectSeq(SubSeq(seg, 2, n - 1), LAMBDA x : x # "")
                \o << seg[n] \o "_" \o tab >>

RECURSIVE join(_)
join(parts) ==
  IF Len(parts) = 1 THEN parts[1] ELSE parts[1] \o "/" \o join(Tail(parts))

\* str(download_dir)
dir_str(seed, identifier, tab) ==
  TmpDir \o "/" \o join(dir_parts(seed, identifier, tab))

\* names of directories below a directory of /tmp, spelled character by
\* character as the names of files are
Spelling ==
  ("sub_posts" :> << "s", "u", "b", "_", "p", "o", "s", "t", "s" >>)

\* download_dir as a place on disk: the directory of /tmp it is or lies in,
\* and its path below that directory (empty when it is that directory)
download_dir(seed, identifier, tab) ==
  LET parts == dir_parts(seed, identifier, tab)
  IN  [root |-> TmpDir \o "/" \o parts[1],
       rel  |-> [i \in 1..(Len(parts) - 1) |-> Spelling[parts[i + 1]]]]

\* has_range gone wrong: stories takes a range too
has_range_stories(tab) == tab \in {"posts", "stories", "reels", "tagged"}

\* whether the command carries --range
has_range(tab) == tab \in {"posts", "reels", "tagged"}

\* range_arg gone wrong: the upper end is max_items - 1
range_arg_exclusive(max_items) == "0-" \o ToString(max_items - 1)

\* the value given to --range
range_arg(max_items) == "0-" \o ToString(max_items)

\* build_cmd gone wrong: the URL is appended before the range
build_cmd_url_first(seed, identifier, tab, sessionid, max_items) ==
  << "gallery-dl",
     "--config", cfg_path(seed, sessionid),
     "--destination", dir_str(seed, identifier, tab) \o "/",
     "--verbose" >>
  \o << target_url(identifier, tab) >>
  \o (IF has_range(tab) THEN << "--range", range_arg(max_items) >> ELSE << >>)

\* run_gallerydl step 4: the command
build_cmd(seed, identifier, tab, sessionid, max_items) ==
  << "gallery-dl",
     "--config", cfg_path(seed, sessionid),
     "--destination", dir_str(seed, identifier, tab) \o "/",
     "--verbose" >>
  \o (IF has_range(tab) THEN << "--range", range_arg(max_items) >> ELSE << >>)
  \o << target_url(identifier, tab) >>

\* the message of the RuntimeError raised on a non-zero exit
failure_message(returncode, stderr) ==
  "Download failed (exit " \o ToString(returncode) \o "):\n" \o stderr

\* raises_RuntimeError gone wrong: only positive exit codes count
raises_RuntimeError_positive(returncode) == returncode > 0

\* whether run_gallerydl raises after the tool has exited
raises_RuntimeError(returncode) == returncode # 0

(***************************************************************************)
(* Download directories.  A directory of /tmp is a function from the paths *)
(* below it to entries; an entry is a subdirectory or a regular file, and  *)
(* a file remembers which run wrote it.  A download directory d is given   *)
(* by the directory of /tmp it is or lies in (d.root) and its path below   *)
(* that directory (d.rel).                                                 *)
(***************************************************************************)
EmptyDir == [p \in {} |-> [kind |-> "dir", by |-> "-"]]

DirEntry == [kind |-> "dir", by |-> "-"]

FileEntry(by) == [kind |-> "file", by |-> by]

\* the proper prefixes of a path: the directories it lies in
Parents(path) == {SubSeq(path, 1, n) : n \in 1..(Len(path) - 1)}

\* whether path p is q or lies above it
IsPrefix(p, q) == Len(p) <= Len(q) /\ SubSeq(q, 1, Len(p)) = p

\* a directory of /tmp that is a download directory itself
TopDir(root) == [root |-> root, rel |-> << >>]

\* d.exists()
dir_exists(ds, d) ==
  d.root \in DOMAIN ds /\ (d.rel = << >> \/ d.rel \in DOMAIN ds[d.root])

\* the paths of d.root that lie below d
below(ds, d) ==
  {p \in DOMAIN ds[d.root] : IsPrefix(d.rel, p) /\ p # d.rel}

\* the entry at path below d
entry(ds, d, path) == ds[d.root][d.rel \o path]

\* shutil.rmtree(d): d goes, and everything below it
rmtree(ds, d) ==
  IF d.rel = << >> THEN [x \in (DOMAIN ds) \ {d.root} |-> ds[x]]
  ELSE LET old == ds[d.root]
       IN  [ds EXCEPT ![d.root] =
              [p \in {q \in DOMAIN old : ~ IsPrefix(d.rel, q)} |-> old[p]]]

\* d.mkdir(parents=True, exist_ok=True): d and the directories above it
\* are made where they are missing
mkdir(ds, d) ==
  LET old  == IF d.root \in DOMAIN ds THEN ds[d.root] ELSE EmptyDir
      made == [q \in Parents(d.rel) \cup ({d.rel} \ {<< >>}) |-> DirEntry]
  IN  (d.root :> (old @@ made)) @@ ds

\* prepare_dir gone wrong: the directory is made but never wiped
prepare_dir_keep(ds, d) == mkdir(ds, d)

\* lines 74-77: wipe the previous run's directory, then make it afresh
prepare_dir(ds, d) == mkdir(IF dir_exists(ds, d) THEN rmtree(ds, d) ELSE ds, d)

\* the external tool writes one file below d, making d and the file's
\* directories as needed
write_file(ds, d, path, by) ==
  LET old  == IF d.root \in DOMAIN ds THEN ds[d.root] ELSE EmptyDir
      full == d.rel \o path
      made == [q \in Parents(full) |-> DirEntry]
  IN  (d.root :> ((full :> FileEntry(by)) @@ made @@ old)) @@ ds

\* whether d exists and holds a regular file
has_files(ds, d) ==
  dir_exists(ds, d) /\ \E p \in below(ds, d) : ds[d.root][p].kind = "file"

\* download_dir.rglob("*"): every path below d, taken from d
rglob(ds, d) == {SubSeq(p, Len(d.rel) + 1, Len(p)) : p \in below(ds, d)}

\* is_file gone wrong: directories pass too
is_file_any(ds, d, path) == path \in rglob(ds, d)

\* p.is_file()
is_file(ds, d, path) == entry(ds, d, path).kind = "file"

\* list_downloaded_media, lines 97-103
list_downloaded_media(ds, d) ==
  IF ~ dir_exists(ds, d) THEN << >>
  ELSE sorted({p \in rglob(ds, d) : is_file(ds, d, p)})

\* clear_downloaded_folder, lines 116-123: the directories left, and the
\* value returned
clear_downloaded_folder(ds, d) ==
  IF dir_exists(ds, d) THEN [dirs |-> rmtree(ds, d), result |-> TRUE]
  ELSE [dirs |-> ds, result |-> FALSE]

\* the suffixes is_video_file takes for a video, line 130
VideoSuffixes ==
  { << ".", "m", "p", "4" >>, << ".", "m", "o", "v" >>,
    << ".", "g", "i", "f", "v" >>, << ".", "w", "e", "b", "m" >>,
    << ".", "m", "k", "v" >>, << ".", "a", "v", "i" >> }

\* is_video_file gone wrong: the suffix is not lowered
is_video_file_case_sensitive(path) == Suffix(path) \in VideoSuffixes

\* is_video_file, lines 125-130
is_video_file(path) == Lower(Suffix(path)) \in VideoSuffixes

\* n_cols of display_media_grid_from_paths as the handlers pass it
NCols == 3

\* the widget display_media_grid_from_paths calls for one path
widget(path) == IF is_video_file(path) THEN "video" ELSE "image"

\* display_media_grid_from_paths, lines 132-149: rows of at most n_cols
\* cells, each cell the path and the widget called for it (a widget that
\* raises is replaced by a line of text in the same cell)
RECURSIVE display_media_grid_from_paths(_, _)
display_media_grid_from_paths(file_paths, n_cols) ==
  IF file_paths = << >> THEN << >>
  ELSE LET n     == IF Len(file_paths) < n_cols THEN Len(file_paths) ELSE n_cols
           chunk == SubSeq(file_paths, 1, n)
           rest  == SubSeq(file_paths, n + 1, Len(file_paths))
       IN  << [i \in 1..n |-> [path |-> chunk[i], widget |-> widget(chunk[i])]] >>
           \o display_media_grid_from_paths(rest, n_cols)

\* create_zip_buffer, lines 105-114: one member per path, named by the
\* path's last component
create_zip_buffer(file_paths) ==
  [i \in 1..Len(file_paths) |-> BaseName(file_paths[i])]


(***************************************************************************)
(* File names the external tool may produce, spelled character by          *)
(* character.                                                              *)
(***************************************************************************)
f_a_mp4      == << "a", ".", "m", "p", "4" >>
f_b_jpg      == << "b", ".", "j", "p", "g" >>
f_c_png      == << "c", ".", "p", "n", "g" >>
f_sub        == << "s", "u", "b" >>
f_sub_txt    == << "s", "u", "b", ".", "t", "x", "t" >>
f_A_MP4      == << "A", ".", "M", "P", "4" >>
f_x_m3u8     == << "x", ".", "m", "3", "u", "8" >>
f_dot_mp4    == << ".", "m", "p", "4" >>
f_mp4        == << "m", "p", "4" >>
f_c_mp4_jpg  == << "c", ".", "m", "p", "4", ".", "j", "p", "g" >>
f_d_webm     == << "d", ".", "w", "e", "b", "m" >>
f_e_Mov      == << "e", ".", "M", "o", "v" >>
f_f_gifv     == << "f", ".", "g", "i", "f", "v" >>
f_g_mkv      == << "g", ".", "m", "k", "v" >>
f_h_avi      == << "h", ".", "a", "v", "i" >>
f_i_json     == << "i", ".", "j", "s", "o", "n" >>

\* the paths the tool may write below a download directory in a fetch
ToolPaths == { << f_a_mp4 >>, << f_sub, f_c_png >> }

\* the paths from which the directories given to direct calls of
\* list_downloaded_media are made
ListPaths ==
  { << f_a_mp4 >>, << f_b_jpg >>, << f_sub, f_c_png >>, << f_sub_txt >>,
    << f_A_MP4 >>, << f_sub, f_A_MP4 >> }

\* the paths from which the listings given to direct calls of
\* display_media_grid_from_paths are made
MediaPaths ==
  { << f_a_mp4 >>, << f_b_jpg >>, << f_sub, f_c_png >>, << f_sub_txt >>,
    << f_A_MP4 >>, << f_sub, f_A_MP4 >>, << f_x_m3u8 >>, << f_dot_mp4 >>,
    << f_mp4 >>, << f_c_mp4_jpg >>, << f_d_webm >>, << f_e_Mov >>,
    << f_f_gifv >>, << f_g_mkv >>, << f_h_avi >>, << f_i_json >> }

\* how many files a directory given to a direct call holds at most
MaxListed == 4


(***************************************************************************)
(* State.                                                                  *)
(***************************************************************************)
VARIABLES
  seed,         \* the hash seed of the running Python process
  cfg,          \* /tmp/gdl_instagram_configs: whether it exists, its files
  dirs,         \* the directories of /tmp that downloads made, by path
  pc,           \* per browser session: "closed", "idle", "running" (the
                \* tool runs), "exited" (the tool has ended), "done"
  req,          \* per session: the form values of the submission
  cmd,          \* per session: the command given to subprocess.run
  target,       \* per session: download_dir of the request
  proc,         \* per session: returncode and stderr of the finished tool
  media_files,  \* per session: what list_downloaded_media returned
  listed_by,    \* per session: for each listed file, the run that wrote it
  page,         \* per session: what the page shows
  cfg_writes,   \* per session: config files written for the request
  execs,        \* per session: executions of the tool for the request
  wiped,        \* per session: line 76 removed files of an earlier run
  written,      \* per session: the paths the tool wrote for the request
  call          \* the last direct call of a helper, with its result

vars == << seed, cfg, dirs, pc, req, cmd, target, proc, media_files,
           listed_by, page, cfg_writes, execs, wiped, written, call >>

session_vars == << pc, req, cmd, target, proc, media_files, listed_by, page,
                   cfg_writes, execs, wiped, written >>

\* the browser sessions; each runs the script in a thread of its own
Sessions == {"A", "B"}

\* label of a file written by a run that its session has since superseded
Earlier == "earlier"

\* form values offered to the handlers ("" is an empty field)
SessionIds == {"", "s1"}

Handles == {"", "natgeo"}

Urls == {"", "https://www.instagram.com/p/X/"}

\* the tabs whose handlers are exercised in fetches: one that passes a
\* range and a handle, one that passes a handle only, one that passes a URL
FetchTabs == {"posts", "stories", "url"}

\* what may be typed into the tab's text field
Identifiers(tab) == IF tab \in {"highlights", "url"} THEN Urls ELSE Handles

\* slider of the posts, reels and tagged tabs: min_value, max_value, value
SliderMin == 1

SliderMax == 100

SliderDefault == 20

\* default of run_gallerydl's max_items, line 37
DefaultMaxItems == 100

\* the max_items a tab's handler passes
MaxItemsOf(tab) ==
  IF has_range(tab) THEN {SliderDefault} ELSE {DefaultMaxItems}

\* exit codes of the tool (negative: killed by a signal) and its stderr
ReturnCodes == {0, 1, -9}

Stderrs == {"rate limited"}

NoReq == [tab |-> "", identifier |-> "", sessionid |-> "", max_items |-> 0]

NoProc == [returncode |-> 0, stderr |-> ""]

NoCall == [fn |-> "none"]

NoDir == TopDir("")

Page(kind, text, grid, zip, zip_name, clear_button) ==
  [kind |-> kind, text |-> text, grid |-> grid, zip |-> zip,
   zip_name |-> zip_name, clear_button |-> clear_button]

Blank == Page("blank", "", << >>, << >>, "", FALSE)

\* the name offered for the ZIP by the tab's handler
zip_name(sd, tab, identifier) ==
  IF tab = "highlights"
    THEN "highlight_" \o ToString(hash(sd, identifier)) \o "_media.zip"
  ELSE IF tab = "url"
    THEN "url_" \o ToString(hash(sd, identifier)) \o "_media.zip"
  ELSE identifier \o "_" \o tab \o "_media.zip"

\* files written by earlier runs of session s lose its label when s starts
\* a new run (a history label, not something on disk)
Relabel(ds, s) ==
  [d \in DOMAIN ds |->
     [p \in DOMAIN ds[d] |->
        IF ds[d][p].by = s THEN [ds[d][p] EXCEPT !.by = Earlier]
        ELSE ds[d][p]]]

InitCommon ==
  /\ seed \in HashSeeds
  /\ cfg = [exists |-> FALSE, files |-> [n \in {} |-> 0]]
  /\ dirs = [d \in {} |-> EmptyDir]
  /\ req = [s \in Sessions |-> NoReq]
  /\ cmd = [s \in Sessions |-> << >>]
  /\ target = [s \in Sessions |-> NoDir]
  /\ proc = [s \in Sessions |-> NoProc]
  /\ media_files = [s \in Sessions |-> << >>]
  /\ listed_by = [s \in Sessions |-> << >>]
  /\ page = [s \in Sessions |-> Blank]
  /\ cfg_writes = [s \in Sessions |-> 0]
  /\ execs = [s \in Sessions |-> 0]
  /\ wiped = [s \in Sessions |-> FALSE]
  /\ written = [s \in Sessions |-> {}]
  /\ call = NoCall

\* one browser session is connected
Init ==
  /\ InitCommon
  /\ pc = [s \in Sessions |-> IF s = "A" THEN "idle" ELSE "closed"]

(***************************************************************************)
(* The tab handlers (lines 241-290 for posts, and their five copies).      *)
(***************************************************************************)

\* A form is submitted with no sessionid or no identifier: the handler
\* shows an error and run_gallerydl is not reached.
SubmitRejected(s, tab, identifier, sessionid) ==
  /\ pc[s] \in {"idle", "done"}
  /\ sessionid = "" \/ identifier = ""
  /\ pc' = [pc EXCEPT ![s] = "done"]
  /\ req' = [req EXCEPT ![s] = NoReq]
  /\ page' = [page EXCEPT ![s] =
       Page(IF sessionid = "" THEN "no_sessionid" ELSE "no_identifier",
            "", << >>, << >>, "", FALSE)]
  /\ cmd' = [cmd EXCEPT ![s] = << >>]
  /\ target' = [target EXCEPT ![s] = NoDir]
  /\ proc' = [proc EXCEPT ![s] = NoProc]
  /\ media_files' = [media_files EXCEPT ![s] = << >>]
  /\ listed_by' = [listed_by EXCEPT ![s] = << >>]
  /\ cfg_writes' = [cfg_writes EXCEPT ![s] = 0]
  /\ execs' = [execs EXCEPT ![s] = 0]
  /\ wiped' = [wiped EXCEPT ![s] = FALSE]
  /\ written' = [written EXCEPT ![s] = {}]
  /\ UNCHANGED << seed, cfg, dirs, call >>

\* Submit gone wrong: a request waits while another session's request for
\* the same directory is under way
Submit_locked(s, tab, identifier, sessionid, max_items) ==
  /\ pc[s] \in {"idle", "done"}
  /\ sessionid # "" /\ identifier # ""
  /\ ~ raises_ValueError(tab)
  /\ ~ \E t \in Sessions \ {s} :
         /\ pc[t] \in {"running", "exited"}
         /\ target[t] = download_dir(seed, identifier, tab)
  /\ pc' = [pc EXCEPT ![s] = "running"]
  /\ req' = [req EXCEPT ![s] = [tab |-> tab, identifier |-> identifier,
                                sessionid |-> sessionid,
                                max_items |-> max_items]]
  /\ cfg' = write_gallerydl_config(seed, cfg, sessionid)
  /\ dirs' = prepare_dir(Relabel(dirs, s), download_dir(seed, identifier, tab))
  /\ target' = [target EXCEPT ![s] = download_dir(seed, identifier, tab)]
  /\ cmd' = [cmd EXCEPT ![s] =
       build_cmd(seed, identifier, tab, sessionid, max_items)]
  /\ cfg_writes' = [cfg_writes EXCEPT ![s] = 1]
  /\ execs' = [execs EXCEPT ![s] = 1]
  /\ wiped' = [wiped EXCEPT ![s] =
       has_files(dirs, download_dir(seed, identifier, tab))]
  /\ written' = [written EXCEPT ![s] = {}]
  /\ proc' = [proc EXCEPT ![s] = NoProc]
  /\ media_files' = [media_files EXCEPT ![s] = << >>]
  /\ listed_by' = [listed_by EXCEPT ![s] = << >>]
  /\ page' = [page EXCEPT ![s] =
       Page("downloading", "", << >>, << >>, "", FALSE)]
  /\ UNCHANGED << seed, call >>

\* A form is submitted with both fields filled: the handler calls
\* run_gallerydl, which writes the config (step 1), resolves the URL (2),
\* wipes and remakes the download directory (3), builds the command (4) and
\* starts the tool (5).  The thread then blocks until the tool exits.
Submit(s, tab, identifier, sessionid, max_items) ==
  /\ pc[s] \in {"idle", "done"}
  /\ sessionid # "" /\ identifier # ""
  /\ ~ raises_ValueError(tab)
  /\ pc' = [pc EXCEPT ![s] = "running"]
  /\ req' = [req EXCEPT ![s] = [tab |-> tab, identifier |-> identifier,
                                sessionid |-> sessionid,
                                max_items |-> max_items]]
  /\ cfg' = write_gallerydl_config(seed, cfg, sessionid)
  /\ dirs' = prepare_dir(Relabel(dirs, s), download_dir(seed, identifier, tab))
  /\ target' = [target EXCEPT ![s] = download_dir(seed, identifier, tab)]
  /\ cmd' = [cmd EXCEPT ![s] =
       build_cmd(seed, identifier, tab, sessionid, max_items)]
  /\ cfg_writes' = [cfg_writes EXCEPT ![s] = 1]
  /\ execs' = [execs EXCEPT ![s] = 1]
  /\ wiped' = [wiped EXCEPT ![s] =
       has_files(dirs, download_dir(seed, identifier, tab))]
  /\ written' = [written EXCEPT ![s] = {}]
  /\ proc' = [proc EXCEPT ![s] = NoProc]
  /\ media_files' = [media_files EXCEPT ![s] = << >>]
  /\ listed_by' = [listed_by EXCEPT ![s] = << >>]
  /\ page' = [page EXCEPT ![s] =
       Page("downloading", "", << >>, << >>, "", FALSE)]
  /\ UNCHANGED << seed, call >>

\* The running tool writes one file below its destination.
ToolWrite(s, path) ==
  /\ pc[s] = "running"
  /\ dirs' = write_file(dirs, target[s], path, s)
  /\ written' = [written EXCEPT ![s] = @ \cup {path}]
  /\ UNCHANGED << seed, cfg, pc, req, cmd, target, proc, media_files,
                  listed_by, page, cfg_writes, execs, wiped, call >>

\* what the handler shows once run_gallerydl has returned download_dir
ShowResult(s, files) ==
  IF files = << >>
    THEN Page("warning", "", << >>, << >>, "", FALSE)
    ELSE Page("success", "",
              display_media_grid_from_paths(files, NCols),
              create_zip_buffer(files),
              zip_name(seed, req[s].tab, req[s].identifier),
              TRUE)

\* what the handler shows when run_gallerydl raised RuntimeError
ShowError(returncode, stderr) ==
  Page("error", "Error: " \o failure_message(returncode, stderr),
       << >>, << >>, "", FALSE)

\* ToolExit gone wrong: a failed tool is run once more
ToolExit_retry(s, returncode, stderr) ==
  /\ pc[s] = "running"
  /\ IF returncode # 0
       THEN /\ execs' = [execs EXCEPT ![s] = execs[s] + 1]
            /\ UNCHANGED << pc, proc >>
       ELSE /\ pc' = [pc EXCEPT ![s] = "exited"]
            /\ proc' = [proc EXCEPT ![s] = [returncode |-> returncode,
                                            stderr |-> stderr]]
            /\ UNCHANGED execs
  /\ UNCHANGED << seed, cfg, dirs, req, cmd, target, media_files, listed_by,
                  page, cfg_writes, wiped, written, call >>

\* The tool exits: subprocess.run returns its exit code and its stderr
\* (line 91), and the thread of the request can go on.
ToolExit(s, returncode, stderr) ==
  /\ pc[s] = "running"
  /\ pc' = [pc EXCEPT ![s] = "exited"]
  /\ proc' = [proc EXCEPT ![s] = [returncode |-> returncode,
                                  stderr |-> stderr]]
  /\ UNCHANGED << seed, cfg, dirs, req, cmd, target, media_files, listed_by,
                  page, cfg_writes, execs, wiped, written, call >>

\* HandleResult gone wrong: a failed request removes its download directory
HandleResult_rollback(s) ==
  /\ pc[s] = "exited"
  /\ pc' = [pc EXCEPT ![s] = "done"]
  /\ IF raises_RuntimeError(proc[s].returncode)
       THEN /\ media_files' = [media_files EXCEPT ![s] = << >>]
            /\ listed_by' = [listed_by EXCEPT ![s] = << >>]
            /\ page' = [page EXCEPT ![s] =
                 ShowError(proc[s].returncode, proc[s].stderr)]
            /\ dirs' = clear_downloaded_folder(dirs, target[s]).dirs
       ELSE LET files == list_downloaded_media(dirs, target[s])
            IN  /\ media_files' = [media_files EXCEPT ![s] = files]
                /\ listed_by' = [listed_by EXCEPT ![s] =
                     [i \in 1..Len(files) |->
                        entry(dirs, target[s], files[i]).by]]
                /\ page' = [page EXCEPT ![s] = ShowResult(s, files)]
                /\ UNCHANGED dirs
  /\ UNCHANGED << seed, cfg, req, cmd, target, proc, cfg_writes, execs,
                  wiped, written, call >>

\* The thread of the request goes on after the tool.  run_gallerydl raises
\* RuntimeError on a non-zero exit and returns download_dir otherwise; the
\* handler then lists the directory and shows the warning, or the grid with
\* the ZIP and the clear button.
HandleResult(s) ==
  /\ pc[s] = "exited"
  /\ pc' = [pc EXCEPT ![s] = "done"]
  /\ IF raises_RuntimeError(proc[s].returncode)
       THEN /\ media_files' = [media_files EXCEPT ![s] = << >>]
            /\ listed_by' = [listed_by EXCEPT ![s] = << >>]
            /\ page' = [page EXCEPT ![s] =
                 ShowError(proc[s].returncode, proc[s].stderr)]
       ELSE LET files == list_downloaded_media(dirs, target[s])
            IN  /\ media_files' = [media_files EXCEPT ![s] = files]
                /\ listed_by' = [listed_by EXCEPT ![s] =
                     [i \in 1..Len(files) |->
                        entry(dirs, target[s], files[i]).by]]
                /\ page' = [page EXCEPT ![s] = ShowResult(s, files)]
  /\ UNCHANGED << seed, cfg, dirs, req, cmd, target, proc, cfg_writes, execs,
                  wiped, written, call >>

\* run_gallerydl is called with a tab it does not know: the config is
\* written (step 1) and step 2 raises ValueError.
RunUnknownTab(identifier, tab, sessionid) ==
  /\ raises_ValueError(tab)
  /\ cfg' = write_gallerydl_config(seed, cfg, sessionid)
  /\ call' = [fn |-> "run_gallerydl", identifier |-> identifier, tab |-> tab,
              sessionid |-> sessionid, raised |-> "ValueError"]
  /\ UNCHANGED << seed, dirs, session_vars >>

\* The "Clear Downloaded ..." button is clicked (line 278 and its copies).
\* The click reruns the script; in the rerun every form_submit_button
\* returns False, so none of the "if submit_...:" blocks (line 241 and its
\* copies) is entered: the button is not drawn again, line 279 is not
\* reached, and the tab shows its form and nothing else.
ClickClear(s) ==
  /\ pc[s] = "done"
  /\ page[s].clear_button
  /\ pc' = [pc EXCEPT ![s] = "idle"]
  /\ page' = [page EXCEPT ![s] = Blank]
  /\ req' = [req EXCEPT ![s] = NoReq]
  /\ cmd' = [cmd EXCEPT ![s] = << >>]
  /\ target' = [target EXCEPT ![s] = NoDir]
  /\ proc' = [proc EXCEPT ![s] = NoProc]
  /\ media_files' = [media_files EXCEPT ![s] = << >>]
  /\ listed_by' = [listed_by EXCEPT ![s] = << >>]
  /\ cfg_writes' = [cfg_writes EXCEPT ![s] = 0]
  /\ execs' = [execs EXCEPT ![s] = 0]
  /\ wiped' = [wiped EXCEPT ![s] = FALSE]
  /\ written' = [written EXCEPT ![s] = {}]
  /\ UNCHANGED << seed, cfg, dirs, call >>

UnknownTabs == {"igtv"}

Next ==
  \/ \E s \in Sessions, tab \in FetchTabs, sessionid \in SessionIds :
       \E identifier \in Identifiers(tab) :
         SubmitRejected(s, tab, identifier, sessionid)
  \/ \E s \in Sessions, tab \in FetchTabs, sessionid \in SessionIds :
       \E identifier \in Identifiers(tab), max_items \in MaxItemsOf(tab) :
         Submit(s, tab, identifier, sessionid, max_items)
  \/ \E s \in Sessions, path \in ToolPaths : ToolWrite(s, path)
  \/ \E s \in Sessions, returncode \in ReturnCodes, stderr \in Stderrs :
       ToolExit(s, returncode, stderr)
  \/ \E s \in Sessions : HandleResult(s)
  \/ \E s \in Sessions : ClickClear(s)
  \/ \E tab \in UnknownTabs, sessionid \in SessionIds \ {""} :
       \E identifier \in Handles \ {""} :
         RunUnknownTab(identifier, tab, sessionid)

Spec == Init /\ [][Next]_vars


(***************************************************************************)
(* Direct calls of the helpers, with arguments from bounded sets: one call *)
(* in each behaviour.                                                      *)
(***************************************************************************)

\* arguments of direct calls
CallIdentifiers ==
  { "natgeo", "nasa", "https://www.instagram.com/p/X/",
    "https://www.instagram.com/stories/highlights/1/" }

CallSessionIds == {"s1", "s2"}

CallMaxItems == SliderMin..SliderMax

\* a download directory holding exactly the files of S
TreeOf(S) ==
  [p \in S \cup UNION {Parents(q) : q \in S} |->
     IF p \in S THEN FileEntry(Earlier) ELSE DirEntry]

\* the sets of at most n files taken from paths
RECURSIVE FileSets(_, _)
FileSets(paths, n) ==
  IF n = 0 THEN {{}}
  ELSE LET smaller == FileSets(paths, n - 1)
       IN  smaller \cup {S \cup {p} : S \in smaller, p \in paths}

\* no browser session is connected
InitCalls ==
  /\ InitCommon
  /\ pc = [s \in Sessions |-> "closed"]

\* steps 2 and 4 of run_gallerydl for a tab it knows
CallBuildCmd(identifier, tab, sessionid, max_items) ==
  /\ call = NoCall
  /\ ~ raises_ValueError(tab)
  /\ call' = [fn |-> "build_cmd", identifier |-> identifier, tab |-> tab,
              sessionid |-> sessionid, max_items |-> max_items,
              cmd |-> build_cmd(seed, identifier, tab, sessionid, max_items)]
  /\ UNCHANGED << seed, cfg, dirs, session_vars >>

\* list_downloaded_media on a directory holding the files of S, or on a
\* path where there is no directory
CallList(S, exists) ==
  /\ call = NoCall
  /\ exists \/ S = {}
  /\ LET d  == TopDir(TmpDir \o "/ig_natgeo_posts")
         ds == IF exists THEN (d.root :> TreeOf(S))
               ELSE [x \in {} |-> EmptyDir]
     IN  call' = [fn |-> "list_downloaded_media", exists |-> exists,
                  tree |-> IF exists THEN ds[d.root] ELSE EmptyDir,
                  result |-> list_downloaded_media(ds, d)]
  /\ UNCHANGED << seed, cfg, dirs, session_vars >>

\* display_media_grid_from_paths on the listing of a directory holding the
\* files of S
CallDisplay(S) ==
  /\ call = NoCall
  /\ LET file_paths == sorted(S)
     IN  call' = [fn |-> "display_media_grid_from_paths",
                  file_paths |-> file_paths,
                  grid |-> display_media_grid_from_paths(file_paths, NCols)]
  /\ UNCHANGED << seed, cfg, dirs, session_vars >>

NextCalls ==
  \/ \E identifier \in CallIdentifiers, tab \in Tabs,
        sessionid \in CallSessionIds, max_items \in CallMaxItems :
       CallBuildCmd(identifier, tab, sessionid, max_items)
  \/ \E S \in FileSets(ListPaths, MaxListed), exists \in BOOLEAN :
       CallList(S, exists)
  \/ \E S \in FileSets(MediaPaths, MaxListed) : CallDisplay(S)

SpecCalls == InitCalls /\ [][NextCalls]_vars

(***************************************************************************)
(* The config directory over the life of the server: calls of              *)
(* write_gallerydl_config, and restarts of the Python process, which draw  *)
(* a new hash seed and leave /tmp as it is.                                *)
(***************************************************************************)

CallWriteConfig(sessionid) ==
  /\ cfg' = write_gallerydl_config(seed, cfg, sessionid)
  /\ call' = [fn |-> "write_gallerydl_config", sessionid |-> sessionid,
              result |-> cfg_path(seed, sessionid)]
  /\ UNCHANGED << seed, dirs, session_vars >>

Restart(new_seed) ==
  /\ seed' = new_seed
  /\ call' = NoCall
  /\ UNCHANGED << cfg, dirs, session_vars >>

NextConfig ==
  \/ \E sessionid \in CallSessionIds : CallWriteConfig(sessionid)
  \/ \E new_seed \in HashSeeds : Restart(new_seed)

SpecConfig == InitCalls /\ [][NextConfig]_vars


(***************************************************************************)
(* Two browser sessions at once.  Streamlit runs the script of each        *)
(* session in a thread of its own and insta.py takes no lock, so the steps *)
(* of two requests interleave freely.  Both sessions ask for the same      *)
(* (identifier, tab) key.                                                  *)
(***************************************************************************)

\* both browser sessions are connected
InitRace ==
  /\ InitCommon
  /\ pc = [s \in Sessions |-> "idle"]

RaceTabs == {"posts"}

RaceHandles == {"natgeo"}

RaceSessionIds == {"s1"}

\* the exits of the tool in the race: a success and a failure
RaceReturnCodes == {0, 1}

NextRace ==
  \/ \E s \in Sessions, tab \in RaceTabs, identifier \in RaceHandles,
        sessionid \in RaceSessionIds :
       \E max_items \in MaxItemsOf(tab) :
         Submit(s, tab, identifier, sessionid, max_items)
  \/ \E s \in Sessions, path \in ToolPaths : ToolWrite(s, path)
  \/ \E s \in Sessions, returncode \in RaceReturnCodes, stderr \in Stderrs :
       ToolExit(s, returncode, stderr)
  \/ \E s \in Sessions : HandleResult(s)
  \/ \E s \in Sessions : ClickClear(s)

SpecRace == InitRace /\ [][NextRace]_vars


(***************************************************************************)
(* Fetches and clears over several (identifier, tab) keys, one after the   *)
(* other.  The username field takes any text (lines 229-233), a text with  *)
(* a "/" included.  No handler reaches clear_downloaded_folder, so it is   *)
(* called directly here, on the download directory of a key.               *)
(***************************************************************************)

KeyTabs == {"posts"}

KeyHandles == {"natgeo", "nasa", "natgeo_posts/sub"}

\* the (identifier, tab) keys
Keys == [identifier : KeyHandles, tab : KeyTabs]

\* clear_downloaded_folder(download_dir) for the key (identifier, tab)
CallClear(identifier, tab) ==
  /\ \A s \in Sessions : pc[s] \in {"closed", "idle", "done"}
  /\ LET d == download_dir(seed, identifier, tab)
         r == clear_downloaded_folder(dirs, d)
     IN  /\ dirs' = r.dirs
         /\ call' = [fn |-> "clear_downloaded_folder",
                     identifier |-> identifier, tab |-> tab,
                     existed |-> dir_exists(dirs, d), result |-> r.result]
  /\ UNCHANGED << seed, cfg, session_vars >>

NextKeys ==
  \/ \E s \in Sessions, tab \in KeyTabs, identifier \in KeyHandles,
        sessionid \in RaceSessionIds :
       \E max_items \in MaxItemsOf(tab) :
         Submit(s, tab, identifier, sessionid, max_items)
  \/ \E s \in Sessions, path \in ToolPaths : ToolWrite(s, path)
  \/ \E s \in Sessions, returncode \in RaceReturnCodes, stderr \in Stderrs :
       ToolExit(s, returncode, stderr)
  \/ \E s \in Sessions : HandleResult(s)
  \/ \E s \in Sessions : ClickClear(s)
  \/ \E k \in Keys : CallClear(k.identifier, k.tab)

SpecKeys == Init /\ [][NextKeys]_vars


(***************************************************************************)
(* Properties.                                                             *)
(***************************************************************************)

\* the command of the last direct call, its last argument, and the value
\* that follows --range in it (the empty sequence when there is none)
BuiltCmd == call.cmd

LastArg(c) == c[Len(c)]

RangeValues(c) == {c[i + 1] : i \in {j \in 1..(Len(c) - 1) : c[j] = "--range"}}

\* C1: for every identifier the command ends in the URL of the tab's
\* template: posts <id>/, stories stories/<id>/, reels <id>/reels/, tagged
\* <id>/tagged/, and the identifier itself for highlights and url.
C1_TargetUrlIsLastArgument ==
  call.fn = "build_cmd" =>
    LET id  == call.identifier
        url == LastArg(BuiltCmd)
    IN  /\ call.tab = "posts" => url = "https://www.instagram.com/" \o id \o "/"
        /\ call.tab = "stories" =>
             url = "https://www.instagram.com/stories/" \o id \o "/"
        /\ call.tab = "reels" =>
             url = "https://www.instagram.com/" \o id \o "/reels/"
        /\ call.tab = "tagged" =>
             url = "https://www.instagram.com/" \o id \o "/tagged/"
        /\ call.tab \in {"highlights", "url"} => url = id

C1_Witness ==
  /\ call.fn = "build_cmd"
  /\ call.tab = "reels"
  /\ call.identifier = "natgeo"
  /\ LastArg(BuiltCmd) = "https://www.instagram.com/natgeo/reels/"

\* C2: the command carries --range exactly for posts, reels and tagged,
\* once, with the value 0-<max_items>; for stories, highlights and url it
\* carries none whatever max_items is.
C2_RangeFlagIffPagedTab ==
  call.fn = "build_cmd" =>
    /\ (RangeValues(BuiltCmd) # {}) <=> (call.tab \in {"posts", "reels", "tagged"})
    /\ RangeValues(BuiltCmd) \subseteq {"0-" \o ToString(call.max_items)}
    /\ Cardinality({j \in 1..Len(BuiltCmd) : BuiltCmd[j] = "--range"}) <= 1

C2_Witness ==
  /\ call.fn = "build_cmd"
  /\ call.tab = "tagged"
  /\ call.max_items = 20
  /\ RangeValues(BuiltCmd) = {"0-20"}

\* the two ends of a range lo-hi as the tool reads them from the argument
ParseRange(arg) ==
  CHOOSE r \in (0..1) \X (0..(SliderMax + 1)) :
    arg = ToString(r[1]) \o "-" \o ToString(r[2])

RangeOf(c) == ParseRange(CHOOSE v \in RangeValues(c) : TRUE)

FilesOnDisk(s) ==
  IF dir_exists(dirs, target[s])
    THEN {p \in rglob(dirs, target[s]) : is_file(dirs, target[s], p)}
    ELSE {}

\* session s's request reached run_gallerydl and has ended
Ended(s) == pc[s] = "done" /\ execs[s] > 0

\* C4: a fetch wipes what an earlier run left under the same key before the
\* tool runs: while the tool runs its directory holds only files of this
\* run, and the files listed after a successful fetch are all files this
\* run wrote.
C4_NoResidueOfEarlierRun ==
  \A s \in Sessions :
    /\ pc[s] \in {"running", "exited"} =>
         \A p \in FilesOnDisk(s) : entry(dirs, target[s], p).by = s
    /\ (Ended(s) /\ proc[s].returncode = 0) =>
         \A i \in 1..Len(listed_by[s]) : listed_by[s][i] = s

C4_Witness ==
  \E s \in Sessions :
    /\ Ended(s)
    /\ wiped[s]
    /\ page[s].kind = "success"
    /\ media_files[s] = << << f_sub, f_c_png >> >>
    /\ listed_by[s] = << s >>

\* C5: a non-zero exit ends the request in the extraction failure, shown as
\* "Error: Download failed (exit <code>):\n<stderr>", whatever is on disk; a
\* zero exit with no file ends it in the warning; neither shows a grid or
\* offers a ZIP.
C5_FailureDistinctFromEmpty ==
  \A s \in Sessions :
    Ended(s) =>
      /\ proc[s].returncode # 0 =>
           /\ page[s].kind = "error"
           /\ page[s].text =
                "Error: Download failed (exit "
                  \o ToString(proc[s].returncode) \o "):\n" \o proc[s].stderr
      /\ (proc[s].returncode = 0 /\ media_files[s] = << >>) =>
           page[s].kind = "warning"
      /\ page[s].kind \in {"error", "warning"} =>
           /\ page[s].grid = << >>
           /\ page[s].zip = << >>
           /\ page[s].zip_name = ""
      /\ page[s].kind = "error" <=> proc[s].returncode # 0

C5_Witness ==
  \E s \in Sessions :
    /\ Ended(s)
    /\ proc[s] = [returncode |-> -9, stderr |-> "rate limited"]
    /\ FilesOnDisk(s) # {}
    /\ page[s].kind = "error"
    /\ page[s].text = "Error: Download failed (exit -9):\nrate limited"

\* C6: a request writes the config at most once and runs the tool at most
\* once, on the failure paths too.
C6_OneWriteOneExecution ==
  \A s \in Sessions : cfg_writes[s] <= 1 /\ execs[s] <= 1

C6_Witness ==
  \E s \in Sessions :
    /\ Ended(s)
    /\ page[s].kind = "error"
    /\ cfg_writes[s] = 1
    /\ execs[s] = 1

\* C9: a call of run_gallerydl with a tab outside the six leaves the
\* filesystem as it was: no config file is written, no download directory
\* is touched, the tool is not run.
C9_UnknownTabLeavesFilesystem ==
  [][(call' # call /\ call'.fn = "run_gallerydl" /\ call'.raised = "ValueError")
       => (cfg' = cfg /\ dirs' = dirs /\ execs' = execs)]_vars


\* the order of strings and of paths, stated without recursion: u comes
\* before w when, at the first place where they part, u has ended or has
\* the smaller code point (for paths: the smaller component)
StrBefore(u, w) ==
  \E k \in 1..(Len(u) + 1) :
    /\ k <= Len(w)
    /\ \A i \in 1..(k - 1) : u[i] = w[i]
    /\ (k = Len(u) + 1 \/ Ord(u[k]) < Ord(w[k]))

PathBefore(p, q) ==
  \E k \in 1..(Len(p) + 1) :
    /\ k <= Len(q)
    /\ \A i \in 1..(k - 1) : p[i] = q[i]
    /\ (k = Len(p) + 1 \/ StrBefore(p[k], q[k]))

\* C7: list_downloaded_media returns the regular files below the directory,
\* whatever their extension, no directory, each once, in the lexicographic
\* order of their paths (component by component); and the empty list when
\* the directory does not exist.  b.jpg, a.mp4, sub/c.png come back as
\* a.mp4, b.jpg, sub/c.png.
C7_ListingIsSortedFiles ==
  call.fn = "list_downloaded_media" =>
    LET r     == call.result
        files == {p \in DOMAIN call.tree : call.tree[p].kind = "file"}
    IN  /\ ~ call.exists => r = << >>
        /\ {r[i] : i \in 1..Len(r)} = files
        /\ Len(r) = Cardinality(files)
        /\ \A i, j \in 1..Len(r) : i < j => PathBefore(r[i], r[j])
        /\ files = { << f_b_jpg >>, << f_a_mp4 >>, << f_sub, f_c_png >> } =>
             r = << << f_a_mp4 >>, << f_b_jpg >>, << f_sub, f_c_png >> >>

C7_Witness ==
  /\ call.fn = "list_downloaded_media"
  /\ call.exists
  /\ << f_sub >> \in DOMAIN call.tree
  /\ call.result = << << f_a_mp4 >>, << f_b_jpg >>, << f_sub, f_c_png >> >>

\* the credentials held by the files of the config directory
StoredCredentials ==
  {cfg.files[n].extractor.instagram.cookies.sessionid : n \in DOMAIN cfg.files}

\* C8: calls with the same sessionid overwrite one file, so the config
\* directory never holds more files than credentials were used, and the
\* file at the returned path holds the credential.
C8_OneConfigFilePerCredential ==
  /\ Cardinality(DOMAIN cfg.files) <= Cardinality(StoredCredentials)
  /\ call.fn = "write_gallerydl_config" =>
       /\ cfg_name(seed, call.sessionid) \in DOMAIN cfg.files
       /\ cfg.files[cfg_name(seed, call.sessionid)] = config_data(call.sessionid)

\* the suffixes the claim lists for videos
ClaimedVideoSuffixes ==
  VideoSuffixes \cup { << ".", "m", "3", "u", "8" >> }

\* the cells of a grid, row after row
RECURSIVE Cells(_)
Cells(grid) == IF grid = << >> THEN << >> ELSE Head(grid) \o Cells(Tail(grid))

C11_ClickClearsDirectory ==
  [][\A s \in Sessions :
       (pc[s] = "done" /\ page[s].clear_button /\ pc'[s] = "idle")
         => ~ dir_exists(dirs', target[s])]_vars

\* C12: nothing keeps a request from starting while another request for
\* the same key is under way: whenever one session's tool runs or has just
\* ended, and the other session is not in a request of its own, the other
\* session's submission of the same form values can start at once (and so
\* wipe the directory the first one is about to list).
C12_NoLockBetweenRequests ==
  \A s \in Sessions : \A t \in Sessions \ {s} :
    (pc[s] \in {"running", "exited"} /\ pc[t] \in {"idle", "done"}) =>
      ENABLED Submit(t, req[s].tab, req[s].identifier, req[s].sessionid,
                     req[s].max_items)

\* the race has happened: session s's tool wrote a.mp4 and exited 0, the
\* other session's request for the same key wiped the directory and its
\* tool wrote sub/c.png, and the listing of s leaves a.mp4 out and holds
\* the other run's file
C12_Witness ==
  \E s \in Sessions : \E t \in Sessions \ {s} :
    /\ Ended(s)
    /\ proc[s].returncode = 0
    /\ target[t] = target[s]
    /\ pc[t] = "running"
    /\ written[s] = { << f_a_mp4 >> }
    /\ media_files[s] = << << f_sub, f_c_png >> >>
    /\ listed_by[s] = << t >>
    /\ page[s].kind = "success"

\* what is on disk for a download directory: whether it exists, and the
\* kind of every path below it
Shape(ds, d) ==
  IF dir_exists(ds, d)
    THEN [here |-> TRUE, tree |-> [p \in rglob(ds, d) |-> entry(ds, d, p).kind]]
    ELSE [here |-> FALSE, tree |-> << >>]

\* the step is part of a fetch for key k: its submission, or a write of its
\* tool
FetchStepFor(k) ==
  \E s \in Sessions :
    \/ /\ pc[s] \in {"idle", "done"}
       /\ pc'[s] = "running"
       /\ req'[s].identifier = k.identifier
       /\ req'[s].tab = k.tab
    \/ /\ pc[s] = "running"
       /\ req[s].identifier = k.identifier
       /\ req[s].tab = k.tab
       /\ \E path \in ToolPaths : dirs' = write_file(dirs, target[s], path, s)

\* the step is a clear of key k's download directory
ClearStepFor(k) ==
  /\ call'.fn = "clear_downloaded_folder"
  /\ call'.identifier = k.identifier
  /\ call'.tab = k.tab
  /\ dirs' = clear_downloaded_folder(
               dirs, download_dir(seed, k.identifier, k.tab)).dirs
  /\ UNCHANGED session_vars

\* C13: the download directory of a key and what is in it change only in
\* a fetch for that key or in a clear of that directory; a fetch or a clear
\* for any other key leaves them as they are.
C13_DirectoryChangedByOwnKeyOnly ==
  [][\A k \in Keys :
       Shape(dirs', download_dir(seed, k.identifier, k.tab))
           # Shape(dirs, download_dir(seed, k.identifier, k.tab))
         => (FetchStepFor(k) \/ ClearStepFor(k))]_vars

\* C14: nothing is rolled back when a request fails.  After a request that
\* ended in the extraction failure its download directory exists, no file
\* of an earlier run is left in it, every file the failed run wrote is
\* still on disk, and nothing is listed or offered to the user.
C14_FailedRequestLeavesItsFiles ==
  \A s \in Sessions :
    (Ended(s) /\ proc[s].returncode # 0) =>
      /\ dir_exists(dirs, target[s])
      /\ \A p \in FilesOnDisk(s) : entry(dirs, target[s], p).by = s
      /\ FilesOnDisk(s) = written[s]
      /\ media_files[s] = << >>
      /\ page[s].kind = "error"
      /\ page[s].grid = << >>
      /\ page[s].zip = << >>
      /\ ~ page[s].clear_button

\* a failed request that wiped the files of an earlier run and left a file
\* of its own
C14_Witness ==
  \E s \in Sessions :
    /\ Ended(s)
    /\ proc[s].returncode = 1
    /\ wiped[s]
    /\ written[s] = { << f_a_mp4 >> }
    /\ FilesOnDisk(s) = { << f_a_mp4 >> }
    /\ page[s].kind = "error"

====
